---- MODULE Spec2Model ----
(***************************************************************************)
(* Model of src/etl.py: the customer-data ETL pipeline.                    *)
(*                                                                         *)
(* The store is PostgreSQL reached through SQLAlchemy.  The model keeps    *)
(* the staging table, the index on it, the three derived tables and the    *)
(* error log, and steps through etl() statement by statement.              *)
(*                                                                         *)
(* Columns kept: customer_id, gender, item_purchased, category,            *)
(* review_rating, subscription_status, discount_applied, promo_code_used.  *)
(* The other columns of the 19 travel through the same statements as       *)
(* gender (customers), category (products) and item_purchased (purchases). *)
(*                                                                         *)
(* Row writes of load_to_staging commit one by one (statement autocommit   *)
(* of engine.connect(), the "one write transaction per row" of the design).*)
(***************************************************************************)
EXTENDS Integers, Sequences, FiniteSets, Bags, TLC

\* ---------------------------------------------------------------- bounds
MaxBatch  == 2   \* rows per input file
MaxRuns   == 2   \* runs of etl() against the same database
MaxFaults == 1   \* statements the environment makes fail (connectivity ...)

\* ---------------------------------------------------------------- values
NULL == "NULL"          \* SQL NULL in a text column
MissingId == 0          \* an empty Customer ID field (pandas NaN): no key
CustomerIds == {1, 2, 3}

NullRating == [k |-> "null", n |-> 0, d |-> 1]
Num(n) == [k |-> "num", n |-> n, d |-> 1]

StatusCols == {"subscription_status", "discount_applied", "promo_code_used"}
OptionalCols == {"review_rating", "subscription_status"}

\* TABLE_SCHEMA / staging_database_schema: customer_id is the primary key.
NonKeyCols ==
  {"gender", "item_purchased", "category", "review_rating",
   "subscription_status", "discount_applied", "promo_code_used"}

PRIMARY_KEYS == {"customer_id"}

Row(id, g, item, cat, rating, sub, disc, promo) ==
  [customer_id |-> id, gender |-> g, item_purchased |-> item, category |-> cat,
   review_rating |-> rating, subscription_status |-> sub,
   discount_applied |-> disc, promo_code_used |-> promo]

VersionA(id) == Row(id, "F", "Shirt", "Clothing", Num(4), "Yes", "Yes", "No")
VersionB(id) == Row(id, "M", "Hat", "Accessories", Num(2), "No", "No", "Yes")

\* Rows an input file may hold: two versions of customer 1 that differ in
\* every non-key column, customer 2 buying the same product as customer 1,
\* customer 3, and a row whose Customer ID field is empty.
RowPool ==
  {VersionA(1), VersionB(1), VersionA(2), VersionB(3), VersionA(MissingId)}

BoundedSeq(S, n) == UNION {[1..m -> S] : m \in 0..n}

\* extract(): pd.read_csv gives every row of one file the same column set.
\* A file either has all columns or lacks the OptionalCols.
Files ==
  {[rows |-> rs, missing |-> ms] :
      rs \in BoundedSeq(RowPool, MaxBatch), ms \in {{}, OptionalCols}}

\* df.to_dict(orient='records') then insert(table_schema).values(**record):
\* a column the file lacks is not in the record and gets the column default.
Record(f, i) ==
  LET r == f.rows[i] IN
  [r EXCEPT !.review_rating =
               IF "review_rating" \in f.missing THEN NullRating ELSE @,
            !.subscription_status =
               IF "subscription_status" \in f.missing THEN NULL ELSE @]

\* ------------------------------------------------------- staging upsert
Ids(S) == {s.customer_id : s \in S}

\* Mutation: the SET clause misses one column.
ConflictUpdate_SkipsColumn(old, new) ==
  [old EXCEPT !.gender = new.gender,
              !.item_purchased = new.item_purchased,
              !.category = new.category,
              !.review_rating = new.review_rating,
              !.subscription_status = new.subscription_status,
              !.discount_applied = new.discount_applied]

\* Mutation: the SET clause adds the incoming rating to the stored one.
ConflictUpdate_Accumulates(old, new) ==
  [new EXCEPT !.review_rating =
     IF old.review_rating.k = "num" /\ @.k = "num"
       THEN [k |-> "num", n |-> old.review_rating.n + @.n, d |-> 1]
       ELSE @]

\* set_={c.key: c for c in stmt.excluded if not c.primary_key}
ConflictUpdate(old, new) ==
  [old EXCEPT !.gender = new.gender,
              !.item_purchased = new.item_purchased,
              !.category = new.category,
              !.review_rating = new.review_rating,
              !.subscription_status = new.subscription_status,
              !.discount_applied = new.discount_applied,
              !.promo_code_used = new.promo_code_used]

\* on_conflict_do_update(index_elements=primary_keys, ...)
Conflict(s, r) == \A k \in PRIMARY_KEYS : s[k] = r[k]

\* Mutation: a plain INSERT into a table that does not enforce the key.
Upsert_InsertOnly(S, r) == S \cup {r}

\* INSERT ... ON CONFLICT (customer_id) DO UPDATE SET ...
Upsert(S, r) ==
  IF \E s \in S : Conflict(s, r)
    THEN {IF Conflict(s, r) THEN ConflictUpdate(s, r) ELSE s : s \in S}
    ELSE S \cup {r}

\* The store rejects a row without a key (NaN does not fit the Integer
\* primary key), conn.execute raises.
WriteRaises(r) == r.customer_id = MissingId


\* load_to_staging on a whole batch when nothing but the data decides which
\* write raises: rows are written in file order, the first write that raises
\* leaves the for loop (the try encloses the loop).
RECURSIVE LoadFrom(_, _, _)
LoadFrom(f, j, S) ==
  IF j > Len(f.rows) THEN S
  ELSE IF WriteRaises(Record(f, j)) THEN S
  ELSE LoadFrom(f, j + 1, Upsert(S, Record(f, j)))

LoadToStaging(f, S) == LoadFrom(f, 1, S)

\* ------------------------------------------------------ type normalizer
\* Mutation: everything but 'No' counts as true.
CaseYes_NotNo(x) == x /= "No"

\* CASE WHEN col = 'Yes' THEN TRUE ELSE FALSE END; a NULL comparison is not
\* true, so NULL takes the ELSE branch.
CaseYes(x) == x /= NULL /\ x = "Yes"

\* The status columns are String columns (staging_database_schema), the
\* boolean is stored through the assignment cast boolean -> varchar.
BoolText(b) == IF b THEN "true" ELSE "false"

ConvertRow(s) ==
  [s EXCEPT !.subscription_status = BoolText(CaseYes(@)),
            !.discount_applied = BoolText(CaseYes(@)),
            !.promo_code_used = BoolText(CaseYes(@))]

\* UPDATE staging SET ... ; no WHERE clause: every row.
ConvertYesNoToBoolean(S) == {ConvertRow(s) : s \in S}

\* ------------------------------------------------------- derived tables
NoTable == [exists |-> FALSE, rows |-> {}]
NoBagTable == [exists |-> FALSE, rows |-> EmptyBag]

CustomerOf(s) ==
  [customer_id |-> s.customer_id, gender |-> s.gender,
   subscription_status |-> s.subscription_status]

ProductOf(s) ==
  [item_purchased |-> s.item_purchased, category |-> s.category]

PurchaseOf(s) ==
  [customer_id |-> s.customer_id, item_purchased |-> s.item_purchased,
   review_rating |-> s.review_rating]

\* CREATE TABLE customers AS SELECT DISTINCT ...
SelectCustomers(S) == {CustomerOf(s) : s \in S}

\* Mutation: the product rows keep the customer they came from.
SelectProducts_PerCustomer(S) ==
  {[item_purchased |-> s.item_purchased, category |-> s.category,
    customer_id |-> s.customer_id] : s \in S}

\* CREATE TABLE products AS SELECT DISTINCT ...
SelectProducts(S) == {ProductOf(s) : s \in S}

\* CREATE TABLE purchases AS SELECT ... (no DISTINCT): one row per staging
\* row, so the result is a bag.
SelectPurchases(S) ==
  [p \in {PurchaseOf(s) : s \in S} |->
      Cardinality({s \in S : PurchaseOf(s) = p})]

\* ------------------------------------------------------- quality repair
RECURSIVE Gcd(_, _)
Gcd(a, b) == IF b = 0 THEN a ELSE Gcd(b, a % b)

Rat(n, d) == LET g == Gcd(n, d) IN [k |-> "num", n |-> n \div g, d |-> d \div g]

\* Sum of count * rating over the given rows of bag B, as <<n, d>>.
RECURSIVE RatingSum(_, _)
RatingSum(B, rows) ==
  IF rows = {} THEN <<0, 1>>
  ELSE LET p == CHOOSE q \in rows : TRUE
           rest == RatingSum(B, rows \ {p})
           r == p.review_rating
       IN <<rest[1] * r.d + B[p] * r.n * rest[2], rest[2] * r.d>>

RECURSIVE CountSum(_, _)
CountSum(B, rows) ==
  IF rows = {} THEN 0
  ELSE LET p == CHOOSE q \in rows : TRUE
       IN B[p] + CountSum(B, rows \ {p})

Rated(B) == {p \in BagToSet(B) : p.review_rating /= NullRating}

\* Mutation: the average is taken over all rows, NULL counting as 0.
AvgRating_OverAllRows(B) ==
  IF Rated(B) = {} THEN NullRating
  ELSE LET sum == RatingSum(B, Rated(B))
       IN Rat(sum[1], sum[2] * CountSum(B, BagToSet(B)))

\* SELECT AVG(review_rating) FROM purchases WHERE review_rating IS NOT NULL
\* AVG over no rows is NULL.
AvgRating(B) ==
  IF Rated(B) = {} THEN NullRating
  ELSE LET sum == RatingSum(B, Rated(B))
       IN Rat(sum[1], sum[2] * CountSum(B, Rated(B)))

\* Mutation: ratings below the average count as missing too.
FillRating_BelowAverage(p, avg) ==
  LET r == p.review_rating IN
  IF r = NullRating \/ (avg /= NullRating /\ r.n * avg.d < avg.n * r.d)
    THEN [p EXCEPT !.review_rating = avg]
    ELSE p

\* Mutation: the UPDATE has no WHERE clause.
FillRating_EveryRow(p, avg) == [p EXCEPT !.review_rating = avg]

FillRating(p, avg) ==
  IF p.review_rating = NullRating THEN [p EXCEPT !.review_rating = avg] ELSE p

\* Mutation: rows that cannot be filled are dropped.
UpdateMissingReviewRatings_DropsUnfilled(B) ==
  LET avg == AvgRating(B)
      filled == {FillRating(p, avg) : p \in BagToSet(B)}
      kept == {q \in filled : q.review_rating /= NullRating}
  IN [q \in kept |->
        CountSum(B, {p \in BagToSet(B) : FillRating(p, avg) = q})]

\* UPDATE purchases SET review_rating = avg FROM avg_rating
\* WHERE review_rating IS NULL
UpdateMissingReviewRatings(B) ==
  LET avg == AvgRating(B)
      filled == {FillRating(p, avg) : p \in BagToSet(B)}
  IN [q \in filled |->
        CountSum(B, {p \in BagToSet(B) : FillRating(p, avg) = q})]


\* ---------------------------------------------------------------- state
VARIABLES
  pc,             \* position of the running etl() call
  run,            \* number of the etl() run (1..MaxRuns)
  df,             \* the extracted file of this run
  i,              \* index of the next record of list_to_write
  stagingExists,  \* the staging table has been created
  staging,        \* rows of the staging table
  indexExists,    \* idx_customer_id exists
  customers,      \* [exists, rows]: the customers table
  purchases,      \* [exists, rows]: the purchases table (rows is a bag)
  products,       \* [exists, rows]: the products table
  log,            \* etl_process.log: the functions that logged an error
  faults,         \* statements the environment has made fail so far
  seenIds,        \* history: keys of the rows handed to load_to_staging
                  \*   whose own write did not raise
  ingested,       \* history: per customer, the record last written by the
                  \*   loader, as it was in the file
  created,        \* history: successful CREATE TABLEs per derived table
  ended,          \* history: the derived tables at the end of the
                  \*   previous run
  sameFile,       \* history: this run reads the file the previous run read
  last,           \* history: [op, ok] of the step just taken
  steps,          \* history: the steps this run has taken, in order
  prev            \* history: the tables before the step just taken

vars ==
  <<pc, run, df, i, stagingExists, staging, indexExists, customers, purchases,
    products, log, faults, seenIds, ingested, created, ended, sameFile, last,
    steps, prev>>

db == <<stagingExists, staging, indexExists, customers, purchases, products>>

DerivedTables == {"customers", "purchases", "products"}

NoFile == [rows |-> <<>>, missing |-> {}]

Snapshot ==
  [staging |-> staging, customers |-> customers, purchases |-> purchases,
   products |-> products]

Init ==
  /\ pc = "extract"
  /\ run = 1
  /\ df = NoFile
  /\ i = 1
  /\ stagingExists = FALSE
  /\ staging = {}
  /\ indexExists = FALSE
  /\ customers = NoTable
  /\ purchases = NoBagTable
  /\ products = NoTable
  /\ log = <<>>
  /\ faults = 0
  /\ seenIds = {}
  /\ ingested = {}
  /\ created = [t \in DerivedTables |-> 0]
  /\ ended = [customers |-> NoTable, purchases |-> NoBagTable,
              products |-> NoTable]
  /\ sameFile = FALSE
  /\ last = [op |-> "init", ok |-> TRUE]
  /\ steps = <<>>
  /\ prev = [staging |-> {}, customers |-> NoTable, purchases |-> NoBagTable,
             products |-> NoTable]

\* The environment may make any statement fail, MaxFaults times in all.
Env(fail) ==
  /\ fail => faults < MaxFaults
  /\ faults' = IF fail THEN faults + 1 ELSE faults

Did(op, ok) ==
  /\ last' = [op |-> op, ok |-> ok]
  /\ steps' = IF op = "start" THEN <<>> ELSE Append(steps, op)
  /\ prev' = Snapshot

\* An exception that leaves etl(): logged by the caller, the run is over.
Abort(op) ==
  /\ pc' = "done"
  /\ log' = Append(log, "main")
  /\ Did(op, FALSE)

\* extract(data_file_path)
Extract ==
  /\ pc = "extract"
  /\ \E f \in Files, fail \in BOOLEAN :
       /\ Env(fail)
       /\ IF fail
            THEN Abort("extract") /\ UNCHANGED <<df, sameFile>>
            ELSE /\ df' = f
                 /\ sameFile' = (run > 1 /\ f = df)
                 /\ pc' = "schema"
                 /\ Did("extract", TRUE)
                 /\ UNCHANGED log
  /\ UNCHANGED <<run, i, db, seenIds, ingested, created, ended>>

\* staging_database_schema: metadata.create_all, create if absent; not
\* inside a try, so a failure leaves etl().
StagingDatabaseSchema ==
  /\ pc = "schema"
  /\ \E fail \in BOOLEAN :
       /\ Env(fail)
       /\ IF fail
            THEN Abort("schema") /\ UNCHANGED <<stagingExists, i>>
            ELSE /\ stagingExists' = TRUE
                 /\ pc' = "load"
                 /\ i' = 1
                 /\ Did("schema", TRUE)
                 /\ UNCHANGED log
  /\ UNCHANGED <<run, df, staging, indexExists, customers, purchases, products,
                 seenIds, ingested, created, ended, sameFile>>

\* Keys of the rows of file f other than row x that carry a key.
KeysExcept(f, x) ==
  {Record(f, j).customer_id : j \in (1..Len(f.rows)) \ {x}} \ {MissingId}

\* load_to_staging, one turn of "for record in list_to_write": the write
\* either commits or raises; the except clause is outside the loop, so a
\* raise ends the loop, is logged, and the function returns.
LoadRow ==
  /\ pc = "load"
  /\ i <= Len(df.rows)
  /\ \E fail \in BOOLEAN :
       /\ Env(fail)
       /\ IF fail \/ WriteRaises(Record(df, i))
            THEN /\ log' = Append(log, "load_to_staging")
                 /\ pc' = "convert"
                 /\ seenIds' = seenIds \cup KeysExcept(df, i)
                 /\ Did("load_row", FALSE)
                 /\ UNCHANGED <<staging, i, ingested>>
            ELSE /\ staging' = Upsert(staging, Record(df, i))
                 /\ ingested' =
                      {s \in ingested :
                         s.customer_id /= Record(df, i).customer_id}
                        \cup {Record(df, i)}
                 /\ i' = i + 1
                 /\ Did("load_row", TRUE)
                 /\ UNCHANGED <<pc, log, seenIds>>
  /\ UNCHANGED <<run, df, stagingExists, indexExists, customers, purchases,
                 products, created, ended, sameFile>>

\* load_to_staging: the loop is exhausted, the function returns.
LoadReturn ==
  /\ pc = "load"
  /\ i > Len(df.rows)
  /\ pc' = "convert"
  /\ seenIds' = seenIds \cup KeysExcept(df, 0)
  /\ Did("load_return", TRUE)
  /\ UNCHANGED <<run, df, i, db, log, faults, ingested, created, ended,
                 sameFile>>

\* execute_sql: the statement raises when the store refuses it or when the
\* environment fails; the exception is logged and swallowed.
Raises(fail, refused) == fail \/ refused

Logged(raised) == log' = IF raised THEN Append(log, "execute_sql") ELSE log

\* Mutation: execute_sql re-raises, the exception leaves etl().
ExecuteSqlThen_Propagates(raised, next) == IF raised THEN "done" ELSE next

\* execute_sql returns normally whether or not the statement raised: the
\* caller goes on to its next statement.
ExecuteSqlThen(raised, next) == next

\* Mutation: the derivation branch starts without the index.
GuardTarget_SkipsIndex(hasCustomers) ==
  IF hasCustomers THEN "repair" ELSE "customers"

\* Mutation: the derivation branch is taken on every run.
GuardTarget_Always(hasCustomers) == "index"

\* transform_and_load: the derivation branch is taken when customers is absent
GuardTarget(hasCustomers) == IF hasCustomers THEN "repair" ELSE "index"

Created(t, raised) ==
  created' = IF raised THEN created ELSE [created EXCEPT ![t] = @ + 1]

\* convert_yes_no_to_boolean
Convert ==
  /\ pc = "convert"
  /\ \E fail \in BOOLEAN :
       /\ Env(fail)
       /\ LET raised == Raises(fail, ~stagingExists) IN
            /\ staging' = IF raised THEN staging
                          ELSE ConvertYesNoToBoolean(staging)
            /\ Logged(raised)
            /\ Did("convert", ~raised)
            /\ pc' = ExecuteSqlThen(raised, "guard")
  /\ UNCHANGED <<run, df, i, stagingExists, indexExists, customers, purchases,
                 products, seenIds, ingested, created, ended, sameFile>>

\* if not inspect(engine).has_table("customers")
Guard ==
  /\ pc = "guard"
  /\ \E fail \in BOOLEAN :
       /\ Env(fail)
       /\ IF fail
            THEN Abort("guard")
            ELSE /\ pc' = GuardTarget(customers.exists)
                 /\ Did("guard", TRUE)
                 /\ UNCHANGED log
  /\ UNCHANGED <<run, df, i, db, seenIds, ingested, created, ended, sameFile>>

\* create_index: CREATE INDEX idx_customer_id, refused when it exists.
CreateIndex ==
  /\ pc = "index"
  /\ \E fail \in BOOLEAN :
       /\ Env(fail)
       /\ LET raised == Raises(fail, indexExists \/ ~stagingExists) IN
            /\ indexExists' = (indexExists \/ ~raised)
            /\ Logged(raised)
            /\ Did("index", ~raised)
            /\ pc' = ExecuteSqlThen(raised, "customers")
  /\ UNCHANGED <<run, df, i, stagingExists, staging, customers, purchases,
                 products, seenIds, ingested, created, ended, sameFile>>

\* create_customers_table: CREATE TABLE, refused when the table exists.
CreateCustomersTable ==
  /\ pc = "customers"
  /\ \E fail \in BOOLEAN :
       /\ Env(fail)
       /\ LET raised == Raises(fail, customers.exists \/ ~stagingExists) IN
            /\ customers' = IF raised THEN customers
                            ELSE [exists |-> TRUE,
                                  rows |-> SelectCustomers(staging)]
            /\ Logged(raised)
            /\ Did("customers", ~raised)
            /\ Created("customers", raised)
            /\ pc' = ExecuteSqlThen(raised, "purchases")
  /\ UNCHANGED <<run, df, i, stagingExists, staging, indexExists, purchases,
                 products, seenIds, ingested, ended, sameFile>>

\* create_purchases_table
CreatePurchasesTable ==
  /\ pc = "purchases"
  /\ \E fail \in BOOLEAN :
       /\ Env(fail)
       /\ LET raised == Raises(fail, purchases.exists \/ ~stagingExists) IN
            /\ purchases' = IF raised THEN purchases
                            ELSE [exists |-> TRUE,
                                  rows |-> SelectPurchases(staging)]
            /\ Logged(raised)
            /\ Did("purchases", ~raised)
            /\ Created("purchases", raised)
            /\ pc' = ExecuteSqlThen(raised, "products")
  /\ UNCHANGED <<run, df, i, stagingExists, staging, indexExists, customers,
                 products, seenIds, ingested, ended, sameFile>>

\* create_products_table
CreateProductsTable ==
  /\ pc = "products"
  /\ \E fail \in BOOLEAN :
       /\ Env(fail)
       /\ LET raised == Raises(fail, products.exists \/ ~stagingExists) IN
            /\ products' = IF raised THEN products
                           ELSE [exists |-> TRUE,
                                 rows |-> SelectProducts(staging)]
            /\ Logged(raised)
            /\ Did("products", ~raised)
            /\ Created("products", raised)
            /\ pc' = ExecuteSqlThen(raised, "repair")
  /\ UNCHANGED <<run, df, i, stagingExists, staging, indexExists, customers,
                 purchases, seenIds, ingested, ended, sameFile>>

\* update_missing_review_ratings: refused when purchases does not exist.
Repair ==
  /\ pc = "repair"
  /\ \E fail \in BOOLEAN :
       /\ Env(fail)
       /\ LET raised == Raises(fail, ~purchases.exists) IN
            /\ purchases' = IF raised THEN purchases
                            ELSE [exists |-> TRUE,
                                  rows |-> UpdateMissingReviewRatings(
                                             purchases.rows)]
            /\ Logged(raised)
            /\ Did("repair", ~raised)
            /\ pc' = ExecuteSqlThen(raised, "done")
  /\ UNCHANGED <<run, df, i, stagingExists, staging, indexExists, customers,
                 products, seenIds, ingested, created, ended, sameFile>>

\* The process ends; the pipeline is started again on the same database.
NextRun ==
  /\ pc = "done"
  /\ run < MaxRuns
  /\ run' = run + 1
  /\ pc' = "extract"
  /\ i' = 1
  /\ ended' = [customers |-> customers, purchases |-> purchases,
               products |-> products]
  /\ sameFile' = FALSE
  /\ Did("start", TRUE)
  /\ UNCHANGED <<df, db, log, faults, seenIds, ingested, created>>

Next ==
  \/ Extract
  \/ StagingDatabaseSchema
  \/ LoadRow
  \/ LoadReturn
  \/ Convert
  \/ Guard
  \/ CreateIndex
  \/ CreateCustomersTable
  \/ CreatePurchasesTable
  \/ CreateProductsTable
  \/ Repair
  \/ NextRun

Spec == Init /\ [][Next]_vars

TypeOK ==
  /\ pc \in {"extract", "schema", "load", "convert", "guard", "index",
             "customers", "purchases", "products", "repair", "done"}
  /\ run \in 1..MaxRuns
  /\ df \in Files
  /\ faults \in 0..MaxFaults
  /\ staging \subseteq
       [customer_id : CustomerIds, gender : {"F", "M"},
        item_purchased : {"Shirt", "Hat"},
        category : {"Clothing", "Accessories"},
        review_rating : {NullRating, Num(2), Num(4)},
        subscription_status : {"Yes", "No", NULL, "true", "false"},
        discount_applied : {"Yes", "No", "true", "false"},
        promo_code_used : {"Yes", "No", "true", "false"}]


\* ======================================================================
\* Properties
\* ======================================================================

\* The record written by the row write just committed.
JustWritten == Record(df, i - 1)

RowWriteCommitted == last.op = "load_row" /\ last.ok

OnConflict ==
  RowWriteCommitted /\ JustWritten.customer_id \in Ids(prev.staging)

\* C1: a row write whose customer_id is already in staging leaves exactly
\* one row for that customer, every non-key column of it holds the incoming
\* value, and the rows of all other customers are as before.
C1_UpsertOverwrites ==
  OnConflict =>
    LET r == JustWritten IN
      /\ \E s \in staging : s.customer_id = r.customer_id
      /\ \A s \in staging :
           s.customer_id = r.customer_id => \A c \in NonKeyCols : s[c] = r[c]
      /\ {s \in staging : s.customer_id /= r.customer_id}
           = {s \in prev.staging : s.customer_id /= r.customer_id}

\* C1 witness: the stored row differed from the incoming one in every
\* non-key column, and another customer was in staging.
C1_Witness ==
  /\ OnConflict
  /\ \E old \in prev.staging :
       /\ old.customer_id = JustWritten.customer_id
       /\ \A c \in NonKeyCols : old[c] /= JustWritten[c]
  /\ \E other \in prev.staging : other.customer_id /= JustWritten.customer_id

\* load_to_staging has just returned.
LoaderReturned == pc = "convert"

\* The row whose write raised in the call that just returned (0: none).
RaisedAt == IF last.op = "load_row" THEN i ELSE 0

\* The call that just returned met no failure of the environment: what it
\* did is decided by the file and the staging table alone.
DataDecided == RaisedAt = 0 \/ WriteRaises(Record(df, RaisedAt))

\* C2: when load_to_staging has returned, running it again on the same
\* file leaves the staging table as it is.
C2_LoaderIdempotent ==
  (LoaderReturned /\ DataDecided) => LoadToStaging(df, staging) = staging

\* C2 witness: a call that overwrote a row loaded by an earlier run has
\* returned after writing a whole file of MaxBatch rows.
C2_Witness ==
  /\ LoaderReturned
  /\ RaisedAt = 0
  /\ Len(df.rows) = MaxBatch
  /\ run > 1
  /\ \E j \in 1..Len(df.rows) : \E s \in ended.customers.rows :
       s.customer_id = Record(df, j).customer_id
  /\ LoadToStaging(df, staging) = staging

\* Index of the last row of file f, other than row x, with key id.
LatestIndex(f, id, x) ==
  CHOOSE j \in (1..Len(f.rows)) \ {x} :
    /\ Record(f, j).customer_id = id
    /\ \A k \in (1..Len(f.rows)) \ {x} :
         Record(f, k).customer_id = id => k <= j

\* C3: after the loader has returned, staging holds exactly one row for
\* every customer_id handed to the loader so far, and the customers of the
\* file just loaded hold the values of their latest row in the file.
C3_OneRowPerSeenId ==
  LoaderReturned =>
    /\ Ids(staging) = seenIds
    /\ \A s, t \in staging : s.customer_id = t.customer_id => s = t
    /\ \A id \in KeysExcept(df, RaisedAt) :
         Record(df, LatestIndex(df, id, RaisedAt)) \in staging

\* C4: when the write of one row of a batch raised, the failure is logged
\* and every other row of the batch that carries a key, before and after
\* the failing row, is in staging with its latest values.
C4_OtherRowsStillLoad ==
  (LoaderReturned /\ RaisedAt /= 0) =>
    /\ log /= <<>> /\ log[Len(log)] = "load_to_staging"
    /\ \A id \in KeysExcept(df, RaisedAt) :
         Record(df, LatestIndex(df, id, RaisedAt)) \in staging

ConvertDone == last.op = "convert" /\ last.ok

\* C5: after the type normalizer has run, the rows are those that were
\* there before, and each status column of a row is true exactly if it was
\* the text "Yes" before, and false otherwise.
C5_BooleanCoercion ==
  ConvertDone =>
    /\ Ids(staging) = Ids(prev.staging)
    /\ \A s \in staging : \E p \in prev.staging :
         /\ p.customer_id = s.customer_id
         /\ \A c \in StatusCols :
              /\ s[c] \in {"true", "false"}
              /\ s[c] = "true" <=> p[c] = "Yes"

\* C5 witness: the normalizer ran on rows holding "Yes", "No", NULL and an
\* already normalized value.
C5_Witness ==
  /\ ConvertDone
  /\ \A v \in {"Yes", "No", NULL, "true"} :
       \E p \in prev.staging : \E c \in StatusCols : p[c] = v
  /\ \E p \in prev.staging : p.subscription_status = NULL
  /\ \E s \in staging : \E c \in StatusCols : s[c] = "true"

\* C6: applying the type normalizer to a staging table it has already
\* normalized changes no value.
C6_ConvertIdempotent ==
  ConvertDone => ConvertYesNoToBoolean(staging) = staging


\* ---------------------------------------------------------------------
AllDerivedExist(t) ==
  t.customers.exists /\ t.purchases.exists /\ t.products.exists

\* C7: the derivation branch is entered only while customers is absent and
\* no derived table is ever created twice; a call that finds the three
\* tables made by the previous call executes no CREATE statement, leaves
\* customers and products as they were, and changes purchases at most by
\* the repair step; two calls without failure create each table exactly
\* once and the second leaves all three as the first made them.
C7_NormalizationGuard ==
  /\ pc = "index" => ~customers.exists
  /\ \A t \in DerivedTables : created[t] <= 1
  /\ (run > 1 /\ AllDerivedExist(ended)) =>
       /\ pc \notin {"index", "customers", "purchases", "products"}
       /\ customers = ended.customers
       /\ products = ended.products
       /\ pc /= "done" => purchases = ended.purchases
  /\ (run > 1 /\ faults = 0) =>
       /\ \A t \in DerivedTables : created[t] = 1
       /\ purchases = ended.purchases

\* C7 witness: the second of two calls without failure has finished on a
\* database whose derived tables hold rows.
C7_Witness ==
  /\ run = 2 /\ pc = "done" /\ last.op = "repair" /\ faults = 0
  /\ \A t \in DerivedTables : created[t] = 1
  /\ customers.rows /= {} /\ customers = ended.customers
  /\ Cardinality(staging) > Cardinality(customers.rows)

RepairDone == last.op = "repair" /\ last.ok

Copies(B, q) == IF q \in DOMAIN B THEN B[q] ELSE 0

Unrated(q) == [q EXCEPT !.review_rating = NullRating]

\* v is the mean of the non-null ratings of bag B.
IsMeanOf(v, B) ==
  LET sum == RatingSum(B, Rated(B))
      cnt == CountSum(B, Rated(B))
  IN v.k = "num" /\ cnt > 0 /\ v.n * sum[2] * cnt = v.d * sum[1]

\* The rows of bag A are the rows of bag B with every null rating replaced
\* by the mean of the non-null ratings of B.
FilledWithMean(A, B) ==
  /\ \A q \in BagToSet(A) :
       /\ q.review_rating /= NullRating
       /\ A[q] = (IF q \in Rated(B) THEN B[q] ELSE 0)
                 + (IF IsMeanOf(q.review_rating, B)
                      THEN Copies(B, Unrated(q)) ELSE 0)
  /\ \A p \in Rated(B) : p \in BagToSet(A)
  /\ \A p \in BagToSet(B) \ Rated(B) :
       \E q \in BagToSet(A) : Unrated(q) = p /\ IsMeanOf(q.review_rating, B)

\* C8: after the repair no purchases row has a null rating, every row that
\* was null holds the mean of the ratings that were non-null before, and
\* the rows that were non-null are unchanged.
C8_RepairFillsEveryNull ==
  RepairDone => FilledWithMean(purchases.rows, prev.purchases.rows)

\* C8 amended: the same, provided some row had a non-null rating before;
\* when every rating was null there is no mean and purchases is unchanged.
C8_RepairFillsWhenRated ==
  RepairDone =>
    IF Rated(prev.purchases.rows) /= {}
      THEN FilledWithMean(purchases.rows, prev.purchases.rows)
      ELSE purchases = prev.purchases

\* C8 witness: a null rating was filled with the mean of two different
\* ratings.
C8_Witness ==
  /\ RepairDone
  /\ \E p, q \in Rated(prev.purchases.rows) :
       p.review_rating /= q.review_rating
  /\ \E p \in BagToSet(prev.purchases.rows) : p.review_rating = NullRating
  /\ \E q \in BagToSet(purchases.rows) :
       q.review_rating = [k |-> "num", n |-> 3, d |-> 1]

RowCounts(t) ==
  [customers |-> Cardinality(t.customers.rows),
   purchases |-> BagCardinality(t.purchases.rows),
   products |-> Cardinality(t.products.rows)]

Exists(t) ==
  [customers |-> t.customers.exists, purchases |-> t.purchases.exists,
   products |-> t.products.exists]

\* C9: during and after a run that reads the file the previous run read,
\* every derived table the previous run left is still there with the row
\* count it had.
C9_RowCountsUnchanged ==
  (run > 1 /\ sameFile) =>
    \A t \in DerivedTables :
      Exists(ended)[t] =>
        Exists(Snapshot)[t] /\ RowCounts(Snapshot)[t] = RowCounts(ended)[t]

\* C9 witness: the second run on the same file has finished, the first
\* run had made all three tables, with several rows.
C9_Witness ==
  /\ run = 2 /\ sameFile /\ pc = "done" /\ last.op = "repair"
  /\ AllDerivedExist(ended)
  /\ RowCounts(Snapshot).customers >= 2
  /\ RowCounts(Snapshot) = RowCounts(ended)

SqlSteps ==
  {"convert", "index", "customers", "purchases", "products", "repair"}

StepAfter(step) ==
  CASE step = "convert" -> "guard"
    [] step = "index" -> "customers"
    [] step = "customers" -> "purchases"
    [] step = "purchases" -> "products"
    [] step = "products" -> "repair"
    [] step = "repair" -> "done"

\* C10: every run that entered transform_and_load ends with the repair
\* step, whatever failed before.
C10_EveryRunReachesRepair ==
  (pc = "done" /\ last.op \notin {"extract", "schema"}) => last.op = "repair"

\* C10 amended: a statement run through execute_sql that fails is logged
\* and the next step follows; a run that entered transform_and_load ends
\* with the repair step unless the has_table check itself raised.
C10_SqlFailuresSwallowed ==
  [][/\ pc \in SqlSteps =>
          /\ pc' = StepAfter(pc)
          /\ log' = IF last'.ok THEN log ELSE Append(log, "execute_sql")
     /\ (pc' = "done" /\ pc \notin {"extract", "schema"}) =>
          pc = "repair" \/ (pc = "guard" /\ ~last'.ok)]_vars

\* C10 witness: a run in which a statement failed has gone through the
\* repair step.
C10_Witness ==
  /\ run = 1 /\ pc = "done" /\ last.op = "repair" /\ last.ok
  /\ log = <<"execute_sql">>
  /\ ~customers.exists /\ purchases.exists


\* ---------------------------------------------------------------------
\* The steps that may come immediately before a step of a run.
MayPrecede(step) ==
  CASE step = "extract" -> {}
    [] step = "schema" -> {"extract"}
    [] step = "load_row" -> {"schema", "load_row"}
    [] step = "load_return" -> {"schema", "load_row"}
    [] step = "convert" -> {"load_row", "load_return"}
    [] step = "guard" -> {"convert"}
    [] step = "index" -> {"guard"}
    [] step = "customers" -> {"index"}
    [] step = "purchases" -> {"customers"}
    [] step = "products" -> {"purchases"}
    [] step = "repair" -> {"guard", "products"}

CreatedThisRun(t) == Exists(Snapshot)[t] /\ ~Exists(ended)[t]

\* C11: the steps of a run are taken in the order extract, schema, load,
\* normalize types, guard, then either index, customers, purchases,
\* products (exactly when customers did not exist) or nothing, then
\* repair; a derived table made in a run was made after that run's type
\* normalization was attempted, and nothing follows the repair step.
C11_StepOrder ==
  /\ steps /= <<>> => steps[1] = "extract"
  /\ \A k \in 2..Len(steps) : steps[k - 1] \in MayPrecede(steps[k])
  /\ (last.op = "guard" /\ last.ok) =>
       pc = IF customers.exists THEN "repair" ELSE "index"
  /\ \A t \in DerivedTables :
       CreatedThisRun(t) =>
         \E k \in 1..Len(steps) :
           /\ steps[k] = "convert"
           /\ \E m \in (k + 1)..Len(steps) : steps[m] = t
  /\ \A k \in 1..Len(steps) :
       steps[k] = "repair" => k = Len(steps) /\ pc = "done"

\* C11 witness: a run has taken every step, deriving the three tables.
C11_Witness ==
  /\ pc = "done"
  /\ steps = <<"extract", "schema", "load_row", "load_row", "load_return",
               "convert", "guard", "index", "customers", "purchases",
               "products", "repair">>
  /\ \A t \in DerivedTables : CreatedThisRun(t)


\* ---------------------------------------------------------------------
\* Bag A is bag B with nothing changed but null ratings.
OnlyNullsFilled(A, B) ==
  /\ BagCardinality(A) = BagCardinality(B)
  /\ \A p \in Rated(B) : Copies(A, p) >= B[p]
  /\ \A q \in BagToSet(A) : q \in BagToSet(B) \/ Unrated(q) \in BagToSet(B)

\* C12: once customers, products and purchases exist, no step changes
\* customers or products, the loader and the type normalizer change no
\* derived table, and purchases is changed by the repair step only, which
\* changes nothing but null ratings.
C12_DerivedTablesAreSnapshots ==
  AllDerivedExist(prev) =>
    /\ customers = prev.customers
    /\ products = prev.products
    /\ purchases.exists
    /\ purchases /= prev.purchases => last.op = "repair" /\ last.ok
    /\ OnlyNullsFilled(purchases.rows, prev.purchases.rows)

\* C12 witness: with the three tables in place a later run has overwritten
\* one staging row and added another, and the type normalizer has run; the
\* derived tables no longer match staging.
C12_Witness ==
  /\ run > 1 /\ AllDerivedExist(prev) /\ AllDerivedExist(ended)
  /\ ConvertDone
  /\ staging /= prev.staging
  /\ Ids(staging) /= Ids(customers.rows)
  /\ \E s \in staging : \E c \in customers.rows :
       s.customer_id = c.customer_id /\ s.gender /= c.gender
  /\ customers = ended.customers /\ products = ended.products
  /\ purchases = ended.purchases


\* ---------------------------------------------------------------------
\* The derivation branch has just ended and each of its three CREATE
\* TABLE statements succeeded; staging is as it was throughout the branch.
DerivationDone ==
  /\ last.op = "products" /\ last.ok
  /\ \A t \in DerivedTables : CreatedThisRun(t)

IsCustomerOf(c, s) ==
  /\ DOMAIN c = {"customer_id", "gender", "subscription_status"}
  /\ c.customer_id = s.customer_id
  /\ c.gender = s.gender
  /\ c.subscription_status = s.subscription_status

IsProductOf(p, s) ==
  /\ DOMAIN p = {"item_purchased", "category"}
  /\ p.item_purchased = s.item_purchased
  /\ p.category = s.category

IsPurchaseOf(q, s) ==
  /\ DOMAIN q = {"customer_id", "item_purchased", "review_rating"}
  /\ q.customer_id = s.customer_id
  /\ q.item_purchased = s.item_purchased
  /\ q.review_rating = s.review_rating

\* C13: after a derivation whose statements all succeeded, customers holds
\* exactly the distinct customer projections of staging, products exactly
\* the distinct product projections, and purchases one row for every
\* staging row.
C13_DerivedTablesAreProjections ==
  DerivationDone =>
    /\ \A s \in staging : \E c \in customers.rows : IsCustomerOf(c, s)
    /\ \A c \in customers.rows : \E s \in staging : IsCustomerOf(c, s)
    /\ \A s \in staging : \E p \in products.rows : IsProductOf(p, s)
    /\ \A p \in products.rows : \E s \in staging : IsProductOf(p, s)
    /\ \A q \in BagToSet(purchases.rows) :
         purchases.rows[q]
           = Cardinality({s \in staging : IsPurchaseOf(q, s)})
    /\ \A s \in staging :
         \E q \in BagToSet(purchases.rows) : IsPurchaseOf(q, s)
    /\ BagCardinality(purchases.rows) = Cardinality(staging)

\* C13 witness: two customers with the same product tuple gave one
\* products row, and purchases has a row for each of them.
C13_Witness ==
  /\ DerivationDone
  /\ \E s, t \in staging :
       s.customer_id /= t.customer_id /\ ProductOf(s) = ProductOf(t)
  /\ Cardinality(products.rows) < Cardinality(staging)
  /\ Cardinality(customers.rows) = Cardinality(staging)
  /\ BagCardinality(purchases.rows) = Cardinality(staging)


\* ---------------------------------------------------------------------
\* C14: applying the repair again right after it has been applied changes
\* no row of purchases.
C14_RepairIdempotent ==
  RepairDone => UpdateMissingReviewRatings(purchases.rows) = purchases.rows

\* C14 witness: the first application filled a null rating in a table that
\* also held non-null ratings.
C14_Witness ==
  /\ RepairDone
  /\ purchases /= prev.purchases
  /\ Rated(prev.purchases.rows) /= {}
  /\ Rated(prev.purchases.rows) /= BagToSet(prev.purchases.rows)
  /\ UpdateMissingReviewRatings(purchases.rows) = purchases.rows


\* ---------------------------------------------------------------------
\* The previous run ended with customers made and table t missing.
LeftMissing(t) == run > 1 /\ ended.customers.exists /\ ~Exists(ended)[t]

\* C15: a table that was missing at the end of a run which left customers
\* in place is missing in every later run: it is never created, and no
\* CREATE statement for it is executed.
C15_NoPartialRunResume ==
  \A t \in {"purchases", "products"} :
    LeftMissing(t) =>
      /\ ~Exists(Snapshot)[t]
      /\ \A k \in 1..Len(steps) : steps[k] /= t

\* C15 witness: the creation of purchases failed in the run that made
\* customers and products; the next run has finished and purchases is
\* still missing, the repair step failing on it.
C15_Witness ==
  /\ LeftMissing("purchases")
  /\ ended.products.exists
  /\ pc = "done" /\ last.op = "repair" /\ ~last.ok
  /\ ~purchases.exists
  /\ staging /= {}


\* ---------------------------------------------------------------------
PurchaseIds == {q.customer_id : q \in BagToSet(purchases.rows)}

\* C16: whenever customers and purchases both exist, every customer_id of
\* purchases is in customers, and no customer_id occurs twice in customers
\* or twice in purchases.
C16_ReferentialConsistency ==
  (customers.exists /\ purchases.exists) =>
    /\ PurchaseIds \subseteq Ids(customers.rows)
    /\ \A c, d \in customers.rows : c.customer_id = d.customer_id => c = d
    /\ \A id \in PurchaseIds :
         CountSum(purchases.rows,
                  {q \in BagToSet(purchases.rows) : q.customer_id = id}) = 1

\* C16 witness: purchases was made by an earlier run whose creation of
\* customers failed; customers was made by a later run from a staging
\* table that had grown and changed in between.
C16_Witness ==
  /\ run > 1
  /\ CreatedThisRun("customers") /\ ended.purchases.exists
  /\ PurchaseIds /= {}
  /\ PurchaseIds /= Ids(customers.rows)
  /\ \E q \in BagToSet(purchases.rows) : \E s \in staging :
       q.customer_id = s.customer_id /\ q.item_purchased /= s.item_purchased


\* ---------------------------------------------------------------------
CustomersMade == last.op = "customers" /\ last.ok

\* C17: every row of customers carries subscription_status as a boolean,
\* true exactly when the row ingested for that customer had "Yes"; stated
\* for the moment customers is made (it never changes afterwards).
C17_CustomersStatusNormalized ==
  CustomersMade =>
    \A c \in customers.rows :
      /\ c.subscription_status \in {"true", "false"}
      /\ \E src \in ingested :
           /\ src.customer_id = c.customer_id
           /\ c.subscription_status = "true" <=> src.subscription_status = "Yes"

====
